---------------------------- MODULE Spec2Model ----------------------------
(***************************************************************************)
(* Chord construction, chord-expression parsing, note generation and mode  *)
(* recognition of rust-music-theory (src/chord/chord.rs, src/scale/mode.rs,*)
(* src/bin/rustmt/chord.rs).                                               *)
(*                                                                         *)
(* Texts are sequences of one-character strings; offsets returned by the   *)
(* recognizers are 0-based byte offsets, as in Rust.                       *)
(***************************************************************************)
EXTENDS Integers, Sequences, FiniteSets, TLC

VARIABLES pc, call, chord, err, notesOut, modeOut

vars == <<pc, call, chord, err, notesOut, modeOut>>

(***************************************************************************)
(* Bounds                                                                  *)
(***************************************************************************)
\* largest inversion number a caller passes (the parameter is a u8)
MaxInversionArg == 9

(***************************************************************************)
(* Text helpers (str::find, slicing, str::trim, regex alternation find)    *)
(***************************************************************************)
NoMatch == [start |-> -1, end |-> -1]

Min(S) == CHOOSE x \in S : \A y \in S : x <= y

\* &s[from..to] with 0-based byte offsets
Slice(s, from, to) == SubSeq(s, from + 1, to)

\* str::find(char): 0-based index of the first occurrence, -1 for None
FindChar(s, c) ==
    LET hits == {i \in 1..Len(s) : s[i] = c}
    IN  IF hits = {} THEN -1 ELSE Min(hits) - 1

\* str::trim for ASCII blanks
Trim(s) ==
    LET keep == {i \in 1..Len(s) : s[i] # " "}
    IN  IF keep = {} THEN <<>>
        ELSE SubSeq(s, Min(keep), CHOOSE x \in keep : \A y \in keep : y <= x)

MatchAt(a, s, i) ==
    /\ i + Len(a) - 1 <= Len(s)
    /\ SubSeq(s, i, i + Len(a) - 1) = a

\* Regex::find for a pattern "(a1|a2|...)" of literals: leftmost start,
\* first alternative in pattern order at that start
RegexFind(alts, s) ==
    LET starts == {i \in 1..Len(s) : \E k \in 1..Len(alts) : MatchAt(alts[k], s, i)}
    IN  IF starts = {} THEN NoMatch
        ELSE LET i == Min(starts)
                 k == Min({j \in 1..Len(alts) : MatchAt(alts[j], s, i)})
             IN  [start |-> i - 1, end |-> i - 1 + Len(alts[k])]

(***************************************************************************)
(* Mode recognizer (src/scale/mode.rs)                                     *)
(***************************************************************************)
REGEX_MAJOR ==
    << <<"M">>, <<"m","a","j">>, <<"M","a","j">>, <<"M","a","j","o","r">>,
       <<"m","a","j","o","r">>, <<"I","o","n","i","a","n">>,
       <<"i","o","n","i","a","n">> >>

REGEX_MINOR ==
    << <<"m">>, <<"m","i","n">>, <<"M","i","n">>, <<"M","i","n","o","r">>,
       <<"m","i","n","o","r">>, <<"A","e","o","l","i","a","n">>,
       <<"a","e","o","l","i","a","n">> >>

REGEX_DORIAN == << <<"d","o","r">>, <<"d","o","r","i","a","n">> >>

REGEX_PHRYGIAN ==
    << <<"p","h","y">>, <<"p","h","r">>, <<"p","h","r","y","g","i","a","n">> >>

REGEX_LYDIAN == << <<"l","y","d">>, <<"l","y","d","i","a","n">> >>

REGEX_MIXOLYDIAN ==
    << <<"m","i","x">>, <<"m","i","x","o","l","y","d","i","a","n">> >>

REGEX_LOCRIAN == << <<"l","o","c">>, <<"l","o","c","r","i","a","n">> >>

REGEX_MELODIC_MINOR ==
    << <<"m","e","l"," ","m","i","n","o","r">>,
       <<"m","e","l","o","d","i","c","m","i","n","o","r">>,
       <<"m","e","l","o","d","i","c"," ","m","i","n","o","r">>,
       <<"M","e","l","o","d","i","c"," ","M","i","n","o","r">>,
       <<"M","e","l","o","d","i","c","M","i","n","o","r">> >>

REGEX_HARMONIC_MINOR ==
    << <<"h","a","r"," ","m","i","n","o","r">>,
       <<"h","a","r","m","o","n","i","c","m","i","n","o","r">>,
       <<"h","a","r","m","o","n","i","c"," ","m","i","n","o","r">>,
       <<"H","a","r","m","o","n","i","c"," ","M","i","n","o","r">>,
       <<"H","a","r","m","o","n","i","c","M","i","n","o","r">> >>

\* the enum Mode
Mode ==
    {"Ionian", "Dorian", "Phrygian", "Lydian", "Mixolydian", "Aeolian",
     "Locrian", "HarmonicMinor", "MelodicMinor"}

\* the vec `regexes` of Mode::from_regex, in its order
ModeRegexes ==
    << [regex |-> REGEX_MAJOR,          mode |-> "Ionian"],
       [regex |-> REGEX_HARMONIC_MINOR, mode |-> "HarmonicMinor"],
       [regex |-> REGEX_MELODIC_MINOR,  mode |-> "MelodicMinor"],
       [regex |-> REGEX_MINOR,          mode |-> "Aeolian"],
       [regex |-> REGEX_DORIAN,         mode |-> "Dorian"],
       [regex |-> REGEX_LOCRIAN,        mode |-> "Locrian"],
       [regex |-> REGEX_MIXOLYDIAN,     mode |-> "Mixolydian"],
       [regex |-> REGEX_PHRYGIAN,       mode |-> "Phrygian"],
       [regex |-> REGEX_LYDIAN,         mode |-> "Lydian"] >>

NoMode == [ok |-> FALSE, mode |-> "ModeFromRegex", match |-> NoMatch]

\* Mode::from_regex: the first regex of the list that finds a match decides
Mode_from_regex(string) ==
    LET hits == {k \in 1..Len(ModeRegexes) :
                    RegexFind(ModeRegexes[k].regex, string) # NoMatch}
    IN  IF hits = {} THEN NoMode
        ELSE LET k == Min(hits)
             IN  [ok |-> TRUE, mode |-> ModeRegexes[k].mode,
                  match |-> RegexFind(ModeRegexes[k].regex, string)]

(***************************************************************************)
(* Pitch classes, intervals and the Quality / Number recognizers           *)
(***************************************************************************)
\* `pitch_class as u8`: C = 0, C# = 1, ..., B = 11
PitchClass == 0..11

Quality ==
    {"Major", "Minor", "Suspended2", "Suspended4", "Augmented", "Diminished",
     "HalfDiminished", "Dominant"}

Number ==
    {"Triad", "Seventh", "MajorSeventh", "Ninth", "Eleventh", "Thirteenth"}

LetterOrdinal(c) ==
    CASE c \in {"C", "c"} -> 0
      [] c \in {"D", "d"} -> 2
      [] c \in {"E", "e"} -> 4
      [] c \in {"F", "f"} -> 5
      [] c \in {"G", "g"} -> 7
      [] c \in {"A", "a"} -> 9
      [] c \in {"B", "b"} -> 11
      [] OTHER -> -1

InvalidPitch == [ok |-> FALSE, pitch_class |-> -1, end |-> -1]

\* PitchClass::from_regex: a leading pitch letter, optionally followed by
\* a sharp or flat sign; the match span starts at offset 0
PitchClass_from_regex(string) ==
    IF Len(string) = 0 \/ LetterOrdinal(string[1]) = -1 THEN InvalidPitch
    ELSE LET base == LetterOrdinal(string[1])
         IN  IF Len(string) >= 2 /\ string[2] = "#"
                THEN [ok |-> TRUE, pitch_class |-> (base + 1) % 12, end |-> 2]
             ELSE IF Len(string) >= 2 /\ string[2] = "b"
                THEN [ok |-> TRUE, pitch_class |-> (base + 11) % 12, end |-> 2]
             ELSE [ok |-> TRUE, pitch_class |-> base, end |-> 1]

\* Interval::from_semitones: every count must lie in 1..=12
from_semitones(counts) ==
    IF \A i \in 1..Len(counts) : counts[i] \in 1..12
        THEN [ok |-> TRUE, intervals |-> counts]
        ELSE [ok |-> FALSE, intervals |-> <<>>]

\* Interval::to_notes: walk the root through the intervals; the octave goes
\* up by one exactly when the ordinal wraps past 11
RECURSIVE to_notes_from(_, _, _)
to_notes_from(last, intervals, i) ==
    IF i > Len(intervals) THEN <<>>
    ELSE LET sum  == last.pitch_class + intervals[i]
             next == [pitch_class |-> sum % 12,
                      octave |-> (last.octave + sum \div 12) % 256]
         IN  <<next>> \o to_notes_from(next, intervals, i + 1)

to_notes(root_note, intervals) ==
    <<root_note>> \o to_notes_from(root_note, intervals, 1)

\* the alias tables of Quality::from_regex, in priority order
QualityRegexes ==
    << [regex |-> << <<"h","a","l","f"," ","d","i","m","i","n","i","s","h","e","d">> >>, quality |-> "HalfDiminished"],
       [regex |-> << <<"d","i","m","i","n","i","s","h","e","d">> >>, quality |-> "Diminished"],
       [regex |-> << <<"a","u","g","m","e","n","t","e","d">> >>, quality |-> "Augmented"],
       [regex |-> << <<"d","o","m","i","n","a","n","t">> >>, quality |-> "Dominant"],
       [regex |-> << <<"s","u","s","p","e","n","d","e","d","2">> >>, quality |-> "Suspended2"],
       [regex |-> << <<"s","u","s","p","e","n","d","e","d","4">> >>, quality |-> "Suspended4"],
       [regex |-> << <<"m","i","n","o","r">> >>, quality |-> "Minor"],
       [regex |-> << <<"m","a","j","o","r">> >>, quality |-> "Major"] >>

\* the alias tables of Number::from_regex, in priority order
NumberRegexes ==
    << [regex |-> << <<"m","a","j","o","r"," ","s","e","v","e","n","t","h">> >>, number |-> "MajorSeventh"],
       [regex |-> << <<"s","e","v","e","n","t","h">> >>, number |-> "Seventh"],
       [regex |-> << <<"n","i","n","t","h">> >>, number |-> "Ninth"],
       [regex |-> << <<"e","l","e","v","e","n","t","h">> >>, number |-> "Eleventh"],
       [regex |-> << <<"t","h","i","r","t","e","e","n","t","h">> >>, number |-> "Thirteenth"],
       [regex |-> << <<"t","r","i","a","d">> >>, number |-> "Triad"] >>

\* Quality::from_regex: the first alias table that matches decides; an
\* empty clause is the default Major with no match span; any other text
\* without an alias is the quality error
Quality_from_regex(string) ==
    LET hits == {k \in 1..Len(QualityRegexes) :
                    RegexFind(QualityRegexes[k].regex, string) # NoMatch}
    IN  IF hits # {}
            THEN LET k == Min(hits)
                 IN  [ok |-> TRUE, quality |-> QualityRegexes[k].quality,
                      match |-> RegexFind(QualityRegexes[k].regex, string)]
        ELSE IF string = <<>>
            THEN [ok |-> TRUE, quality |-> "Major", match |-> NoMatch]
        ELSE [ok |-> FALSE, quality |-> "QualityFromRegex", match |-> NoMatch]

\* Number::from_regex: the first alias table that matches decides; no
\* alias is the number error (which Chord::from_regex absorbs)
Number_from_regex(string) ==
    LET hits == {k \in 1..Len(NumberRegexes) :
                    RegexFind(NumberRegexes[k].regex, string) # NoMatch}
    IN  IF hits # {}
            THEN LET k == Min(hits)
                 IN  [ok |-> TRUE, number |-> NumberRegexes[k].number,
                      match |-> RegexFind(NumberRegexes[k].regex, string)]
        ELSE [ok |-> FALSE, number |-> "NumberFromRegex", match |-> NoMatch]

(***************************************************************************)
(* Chord (src/chord/chord.rs)                                              *)
(***************************************************************************)
NoChord ==
    [root |-> -1, octave |-> 0, intervals |-> <<>>, quality |-> "",
     number |-> "", inversion |-> 0]

\* Chord::chord_intervals: the 22 declared pairs, any other pair is [4, 3]
chord_intervals(quality, number) ==
    LET semitones ==
        CASE quality = "Major" /\ number = "Triad" -> <<4, 3>>
          [] quality = "Minor" /\ number = "Triad" -> <<3, 4>>
          [] quality = "Suspended2" /\ number = "Triad" -> <<2, 5>>
          [] quality = "Suspended4" /\ number = "Triad" -> <<5, 7>>
          [] quality = "Augmented" /\ number = "Triad" -> <<4, 4>>
          [] quality = "Diminished" /\ number = "Triad" -> <<3, 3>>
          [] quality = "Major" /\ number = "Seventh" -> <<4, 3, 4>>
          [] quality = "Minor" /\ number = "Seventh" -> <<3, 4, 3>>
          [] quality = "Augmented" /\ number = "Seventh" -> <<4, 4, 2>>
          [] quality = "Augmented" /\ number = "MajorSeventh" -> <<4, 4, 3>>
          [] quality = "Diminished" /\ number = "Seventh" -> <<3, 3, 3>>
          [] quality = "HalfDiminished" /\ number = "Seventh" -> <<3, 3, 4>>
          [] quality = "Minor" /\ number = "MajorSeventh" -> <<3, 4, 4>>
          [] quality = "Dominant" /\ number = "Seventh" -> <<4, 3, 3>>
          [] quality = "Dominant" /\ number = "Ninth" -> <<4, 3, 3, 4>>
          [] quality = "Major" /\ number = "Ninth" -> <<4, 3, 4, 3>>
          [] quality = "Dominant" /\ number = "Eleventh" -> <<4, 3, 3, 4, 4>>
          [] quality = "Major" /\ number = "Eleventh" -> <<4, 3, 4, 3, 3>>
          [] quality = "Minor" /\ number = "Eleventh" -> <<3, 4, 3, 4, 3>>
          [] quality = "Dominant" /\ number = "Thirteenth" -> <<4, 3, 3, 4, 3, 4>>
          [] quality = "Major" /\ number = "Thirteenth" -> <<4, 3, 4, 3, 3, 4>>
          [] quality = "Minor" /\ number = "Thirteenth" -> <<3, 4, 3, 4, 3, 4>>
          [] OTHER -> <<4, 3>>
    IN  from_semitones(semitones).intervals

\* with_inversion storing the inversion as given, without the modulo
with_inversion_unwrapped(root, quality, number, inversion) ==
    [root |-> root, octave |-> 4, intervals |-> chord_intervals(quality, number),
     quality |-> quality, number |-> number, inversion |-> inversion]

\* Chord::with_inversion: the inversion is stored modulo intervals.len() + 1
with_inversion(root, quality, number, inversion) ==
    LET intervals == chord_intervals(quality, number)
    IN  [root |-> root, octave |-> 4, intervals |-> intervals,
         quality |-> quality, number |-> number,
         inversion |-> inversion % ((Len(intervals) + 1) % 256)]

\* Chord::new
new(root, quality, number) == with_inversion(root, quality, number, 0)

\* impl Default for Chord
default ==
    [root |-> 0, octave |-> 4, intervals |-> <<>>, quality |-> "Major",
     number |-> "Triad", inversion |-> 0]

\* slice::rotate_left(mid), defined for mid <= len
rotate_left(v, mid) == SubSeq(v, mid + 1, Len(v)) \o SubSeq(v, 1, mid)

\* notes() without its first pass
normalize_skipped(rotated, octave) == rotated

\* first pass of notes(): pull every octave down by the excess of the
\* first note over the chord's octave (u8 arithmetic)
normalize(rotated, octave) ==
    IF rotated[1].octave > octave
        THEN LET diff == rotated[1].octave - octave
             IN  [i \in 1..Len(rotated) |->
                    [rotated[i] EXCEPT !.octave = (rotated[i].octave + 256 - diff) % 256]]
        ELSE rotated

\* the first pass subtracts below zero for some note
normalize_underflows(rotated, octave) ==
    /\ rotated[1].octave > octave
    /\ \E i \in 1..Len(rotated) : rotated[i].octave < rotated[1].octave - octave

\* the comparison with < in place of <=
wraps_strict(note, previous) == note.pitch_class < previous.pitch_class

\* the test of the second pass: the ordinal did not increase
wraps(note, previous) == note.pitch_class <= previous.pitch_class

\* second pass of notes(), the loop body for index i (1-based here) and on
RECURSIVE ensure_increments(_, _)
ensure_increments(ns, i) ==
    IF i > Len(ns) THEN ns
    ELSE IF wraps(ns[i], ns[i - 1])
        THEN ensure_increments(
                [ns EXCEPT ![i].octave = (ns[i - 1].octave + 1) % 256], i + 1)
    ELSE IF ns[i].octave < ns[i - 1].octave
        THEN ensure_increments([ns EXCEPT ![i].octave = ns[i - 1].octave], i + 1)
    ELSE ensure_increments(ns, i + 1)

\* the second pass adds one to an octave of 255
ensure_increments_overflows(result) ==
    \E i \in 2..Len(result) :
        /\ wraps(result[i], result[i - 1])
        /\ result[i - 1].octave = 255

NotesPanic == [panic |-> TRUE, notes |-> <<>>]

\* <Chord as Notes>::notes.  `checks` is the build's overflow-checks
\* setting: with it an overflowing u8 operation panics, without it wraps.
notes(self, checks) ==
    LET root_note == [pitch_class |-> self.root, octave |-> self.octave]
        raw == to_notes(root_note, self.intervals)
    IN  IF self.inversion > Len(raw) THEN NotesPanic
        ELSE LET rotated == rotate_left(raw, self.inversion)
                 lowered == normalize(rotated, self.octave)
                 result  == ensure_increments(lowered, 2)
             IN  IF checks /\ (normalize_underflows(rotated, self.octave)
                               \/ ensure_increments_overflows(result))
                    THEN NotesPanic
                    ELSE [panic |-> FALSE, notes |-> result]

\* rposition in place of position: the last such note
position_last(ns, bass_note) ==
    LET hits == {i \in 1..Len(ns) : ns[i].pitch_class = bass_note}
    IN  IF hits = {} THEN -1 ELSE (CHOOSE x \in hits : \A y \in hits : y <= x) - 1

\* Iterator::position(|note| note.pitch_class == bass_note): 0-based index
\* of the first such note, -1 for None
position(ns, bass_note) ==
    LET hits == {i \in 1..Len(ns) : ns[i].pitch_class = bass_note}
    IN  IF hits = {} THEN -1 ELSE Min(hits) - 1

\* Option::unwrap_or(0) on a position
unwrap_or_0(p) == IF p = -1 THEN 0 ELSE p

Err(e) == [kind |-> "Err", chord |-> NoChord, error |-> e]
Ok(c) == [kind |-> "Ok", chord |-> c, error |-> "none"]
Panicked == [kind |-> "Panic", chord |-> NoChord, error |-> "panic"]

\* Chord::from_regex
Chord_from_regex(string, checks) ==
    LET pitch == PitchClass_from_regex(string)
        slash_option == FindChar(string, "/")
        bass_note_result ==
            IF slash_option # -1
                THEN PitchClass_from_regex(
                        Trim(Slice(string, slash_option + 1, Len(string))))
                ELSE InvalidPitch
        clause_end == IF slash_option = -1 THEN Len(string) ELSE slash_option
    IN  IF ~pitch.ok THEN Err("InvalidPitch")
        ELSE IF pitch.end > clause_end THEN Panicked
        ELSE
        LET q == Quality_from_regex(Trim(Slice(string, pitch.end, clause_end)))
        IN  IF ~q.ok THEN Err(q.quality)
            ELSE
            LET number ==
                    IF q.match # NoMatch
                        THEN LET n == Number_from_regex(
                                        Slice(string, q.match.end, Len(string)))
                             IN  IF n.ok THEN n.number ELSE "Triad"
                        ELSE "Triad"
                c == new(pitch.pitch_class, q.quality, number)
            IN  IF bass_note_result.ok
                    THEN LET ns == notes(c, checks)
                             inversion ==
                                unwrap_or_0(position(ns.notes, bass_note_result.pitch_class))
                         IN  IF ns.panic THEN Panicked
                             ELSE IF inversion # 0
                                THEN Ok(with_inversion(pitch.pitch_class, q.quality,
                                                       number, inversion % 256))
                             ELSE Ok(c)
                    ELSE Ok(c)

(***************************************************************************)
(* Inputs                                                                  *)
(***************************************************************************)
\* the spelling of each of the twelve roots, by ordinal + 1
RootTexts ==
    << <<"C">>, <<"C","#">>, <<"D">>, <<"D","#">>, <<"E">>, <<"F">>, <<"F","#">>, <<"G">>, <<"G","#">>, <<"A">>, <<"A","#">>, <<"B">> >>

\* roots spelled with a flat or in lower case
OtherRootTexts == {<<"A","b">>, <<"B","b">>, <<"c">>}

\* one chord name per declared (quality, number) pair
TableChordNames ==
    {<<"m","a","j","o","r"," ","t","r","i","a","d">>,
     <<"m","i","n","o","r"," ","t","r","i","a","d">>,
     <<"s","u","s","p","e","n","d","e","d","2"," ","t","r","i","a","d">>,
     <<"s","u","s","p","e","n","d","e","d","4"," ","t","r","i","a","d">>,
     <<"a","u","g","m","e","n","t","e","d"," ","t","r","i","a","d">>,
     <<"d","i","m","i","n","i","s","h","e","d"," ","t","r","i","a","d">>,
     <<"m","a","j","o","r"," ","s","e","v","e","n","t","h">>,
     <<"m","i","n","o","r"," ","s","e","v","e","n","t","h">>,
     <<"a","u","g","m","e","n","t","e","d"," ","s","e","v","e","n","t","h">>,
     <<"a","u","g","m","e","n","t","e","d"," ","m","a","j","o","r"," ","s","e","v","e","n","t","h">>,
     <<"d","i","m","i","n","i","s","h","e","d"," ","s","e","v","e","n","t","h">>,
     <<"h","a","l","f"," ","d","i","m","i","n","i","s","h","e","d"," ","s","e","v","e","n","t","h">>,
     <<"m","i","n","o","r"," ","m","a","j","o","r"," ","s","e","v","e","n","t","h">>,
     <<"d","o","m","i","n","a","n","t"," ","s","e","v","e","n","t","h">>,
     <<"d","o","m","i","n","a","n","t"," ","n","i","n","t","h">>,
     <<"m","a","j","o","r"," ","n","i","n","t","h">>,
     <<"d","o","m","i","n","a","n","t"," ","e","l","e","v","e","n","t","h">>,
     <<"m","a","j","o","r"," ","e","l","e","v","e","n","t","h">>,
     <<"m","i","n","o","r"," ","e","l","e","v","e","n","t","h">>,
     <<"d","o","m","i","n","a","n","t"," ","t","h","i","r","t","e","e","n","t","h">>,
     <<"m","a","j","o","r"," ","t","h","i","r","t","e","e","n","t","h">>,
     <<"m","i","n","o","r"," ","t","h","i","r","t","e","e","n","t","h">>}

\* a quality without a number, an undeclared pair, unrecognized text
OtherChordNames ==
    {<<"m","i","n","o","r">>,
     <<"m","a","j","o","r">>,
     <<"h","a","l","f"," ","d","i","m","i","n","i","s","h","e","d">>,
     <<"d","o","m","i","n","a","n","t">>,
     <<"s","u","s","p","e","n","d","e","d","2"," ","t","h","i","r","t","e","e","n","t","h">>,
     <<"z","z","z">>,
     <<"s","e","v","e","n","t","h">>}

\* the main clause after the root: nothing, or a blank and a chord name
MainClauses ==
    {<<>>} \cup {<<" ">> \o n : n \in TableChordNames \cup OtherChordNames}

\* the text after the '/': pitch classes, numbers, neither
BassTexts ==
    {RootTexts[i] : i \in 1..12} \cup OtherRootTexts
    \cup {<<"0">>, <<"1">>, <<"2">>, <<"3">>, <<"7">>, <<"z","z">>, <<>>,
          <<" ","E"," ">>, <<" ","1">>}

\* the bass / inversion clause: none, "/x" or " / x"
BassClauses ==
    {<<>>} \cup {<<"/">> \o b : b \in BassTexts}
    \cup {<<" ","/"," ">> \o b : b \in {<<"C","#">>, <<"G">>, <<"1">>}}

\* the texts given to Chord::from_regex
ChordTexts ==
    {r \o m \o b : r \in {RootTexts[i] : i \in 1..12} \cup OtherRootTexts,
                   m \in MainClauses, b \in BassClauses}
    \cup {<<>>, <<"z","z","z">>, <<"/","C">>}

\* every alias of the nine alias constants of mode.rs
ModeAliases ==
    {<<"M">>,
     <<"m","a","j">>,
     <<"M","a","j">>,
     <<"M","a","j","o","r">>,
     <<"m","a","j","o","r">>,
     <<"I","o","n","i","a","n">>,
     <<"i","o","n","i","a","n">>,
     <<"m">>,
     <<"m","i","n">>,
     <<"M","i","n">>,
     <<"M","i","n","o","r">>,
     <<"m","i","n","o","r">>,
     <<"A","e","o","l","i","a","n">>,
     <<"a","e","o","l","i","a","n">>,
     <<"d","o","r">>,
     <<"d","o","r","i","a","n">>,
     <<"p","h","y">>,
     <<"p","h","r">>,
     <<"p","h","r","y","g","i","a","n">>,
     <<"l","y","d">>,
     <<"l","y","d","i","a","n">>,
     <<"m","i","x">>,
     <<"m","i","x","o","l","y","d","i","a","n">>,
     <<"l","o","c">>,
     <<"l","o","c","r","i","a","n">>,
     <<"m","e","l"," ","m","i","n","o","r">>,
     <<"m","e","l","o","d","i","c","m","i","n","o","r">>,
     <<"m","e","l","o","d","i","c"," ","m","i","n","o","r">>,
     <<"M","e","l","o","d","i","c"," ","M","i","n","o","r">>,
     <<"M","e","l","o","d","i","c","M","i","n","o","r">>,
     <<"h","a","r"," ","m","i","n","o","r">>,
     <<"h","a","r","m","o","n","i","c","m","i","n","o","r">>,
     <<"h","a","r","m","o","n","i","c"," ","m","i","n","o","r">>,
     <<"H","a","r","m","o","n","i","c"," ","M","i","n","o","r">>,
     <<"H","a","r","m","o","n","i","c","M","i","n","o","r">>}

\* the texts given to Mode::from_regex
ModeTexts ==
    ModeAliases
    \cup {<<"z","z","z">>, <<>>, <<"A","e","o","l","i","a","n"," ","d","o","r">>,
          <<"h","a","r","m","o","n","i","c"," ","m","i","n","o","r"," ","M","a","j">>,
          <<"l","y","d","i","a","n"," ","p","h","r">>}

\* Option<Inversion> of NotesCommand: None, Number(u8), BassNote(PitchClass)
Inversions ==
    {[kind |-> "None", val |-> 0]}
    \cup {[kind |-> "Number", val |-> n] : n \in 0..MaxInversionArg}
    \cup {[kind |-> "BassNote", val |-> b] : b \in PitchClass}

NoCall ==
    [name |-> "", root |-> -1, quality |-> "", number |-> "", inversion |-> -1,
     invkind |-> "", text |-> <<>>]

(***************************************************************************)
(* State machine: one value is built, then its notes are produced          *)
(***************************************************************************)
NoModeYet == [ok |-> FALSE, mode |-> "", match |-> NoMatch]

Init ==
    /\ pc = "idle"
    /\ call = NoCall
    /\ chord = NoChord
    /\ err = "none"
    /\ notesOut = <<>>
    /\ modeOut = NoModeYet

\* Chord::new(root, quality, number)
ChordNew ==
    /\ pc = "idle"
    /\ \E root \in PitchClass, quality \in Quality, number \in Number :
        /\ chord' = new(root, quality, number)
        /\ call' = [NoCall EXCEPT !.name = "new", !.root = root,
                                  !.quality = quality, !.number = number]
    /\ pc' = "built"
    /\ UNCHANGED <<err, notesOut, modeOut>>

\* Chord::with_inversion(root, quality, number, inversion)
ChordWithInversion ==
    /\ pc = "idle"
    /\ \E root \in PitchClass, quality \in Quality, number \in Number,
          inversion \in 0..MaxInversionArg :
        /\ chord' = with_inversion(root, quality, number, inversion)
        /\ call' = [NoCall EXCEPT !.name = "with_inversion", !.root = root,
                                  !.quality = quality, !.number = number,
                                  !.inversion = inversion]
    /\ pc' = "built"
    /\ UNCHANGED <<err, notesOut, modeOut>>

\* Chord::default()
ChordDefault ==
    /\ pc = "idle"
    /\ chord' = default
    /\ call' = [NoCall EXCEPT !.name = "default"]
    /\ pc' = "built"
    /\ UNCHANGED <<err, notesOut, modeOut>>

\* Chord::from_regex(string)
ChordFromRegex ==
    /\ pc = "idle"
    /\ \E string \in ChordTexts, checks \in BOOLEAN :
        LET r == Chord_from_regex(string, checks)
        IN  /\ chord' = r.chord
            /\ err' = r.error
            /\ pc' = IF r.kind = "Ok" THEN "built" ELSE "done"
            /\ call' = [NoCall EXCEPT !.name = "from_regex", !.text = string]
    /\ UNCHANGED <<notesOut, modeOut>>

\* notes() / print_notes() on the chord built (chord_command, a library
\* caller)
ChordNotes ==
    /\ pc = "built"
    /\ \E checks \in BOOLEAN :
        LET ns == notes(chord, checks)
        IN  /\ notesOut' = ns.notes
            /\ err' = IF ns.panic THEN "panic" ELSE err
    /\ pc' = "done"
    /\ UNCHANGED <<call, chord, modeOut>>

\* NotesCommand::execute: build the chord, assign the inversion field,
\* print the notes
NotesCommandExecute ==
    /\ pc = "idle"
    /\ \E pitch_class \in PitchClass, quality \in Quality, number \in Number,
          inversion \in Inversions, checks \in BOOLEAN :
        LET c0 == new(pitch_class, quality, number)
            first == notes(c0, checks)
            num == position(first.notes, inversion.val)
            c1 == CASE inversion.kind = "BassNote" /\ ~first.panic /\ num # -1 ->
                            [c0 EXCEPT !.inversion = num % 256]
                    [] inversion.kind = "Number" ->
                            [c0 EXCEPT !.inversion = inversion.val]
                    [] OTHER -> c0
            printed == notes(c1, checks)
        IN  /\ call' = [NoCall EXCEPT !.name = "execute", !.root = pitch_class,
                                      !.quality = quality, !.number = number,
                                      !.inversion = inversion.val,
                                      !.invkind = inversion.kind]
            /\ IF inversion.kind = "BassNote" /\ first.panic
                  THEN /\ chord' = c0
                       /\ notesOut' = <<>>
                       /\ err' = "panic"
                  ELSE /\ chord' = c1
                       /\ notesOut' = printed.notes
                       /\ err' = IF printed.panic THEN "panic" ELSE "none"
    /\ pc' = "done"
    /\ UNCHANGED modeOut

\* Mode::from_regex(string)
ModeFromRegex ==
    /\ pc = "idle"
    /\ \E string \in ModeTexts :
        /\ modeOut' = Mode_from_regex(string)
        /\ call' = [NoCall EXCEPT !.name = "mode_from_regex", !.text = string]
        /\ err' = IF Mode_from_regex(string).ok THEN "none" ELSE "ModeFromRegex"
    /\ pc' = "done"
    /\ UNCHANGED <<chord, notesOut>>

Next ==
    \/ ChordNew
    \/ ChordWithInversion
    \/ ChordDefault
    \/ ChordFromRegex
    \/ ChordNotes
    \/ NotesCommandExecute
    \/ ModeFromRegex

Spec == Init /\ [][Next]_vars

(***************************************************************************)
(* Properties                                                              *)
(***************************************************************************)
HasSlash(text) == FindChar(text, "/") # -1

\* the trimmed text after the first '/'
AfterSlash(text) == Trim(Slice(text, FindChar(text, "/") + 1, Len(text)))

DigitValue(c) ==
    CASE c = "0" -> 0 [] c = "1" -> 1 [] c = "2" -> 2 [] c = "3" -> 3
      [] c = "4" -> 4 [] c = "5" -> 5 [] c = "6" -> 6 [] c = "7" -> 7
      [] c = "8" -> 8 [] c = "9" -> 9 [] OTHER -> -1

\* the decimal value of a text of digits that fits a u8, -1 otherwise
RECURSIVE DecimalValue(_)
DecimalValue(s) ==
    IF s = <<>> THEN 0
    ELSE 10 * DecimalValue(SubSeq(s, 1, Len(s) - 1)) + DigitValue(s[Len(s)])

IsInteger(s) ==
    /\ s # <<>>
    /\ \A i \in 1..Len(s) : DigitValue(s[i]) # -1
    /\ DecimalValue(s) <= 255

\* a from_regex call whose root and quality were recognized
ParsedChordText ==
    /\ call.name = "from_regex"
    /\ err \notin {"InvalidPitch", "QualityFromRegex"}

\* the notes of the chord in root position
RootPositionNotes(c) == to_notes([pitch_class |-> c.root, octave |-> c.octave], c.intervals)

\* C1: every chord has 0 <= inversion <= intervals.len(), also after
\* the callers' assignments to the inversion field
C1_InversionInRange ==
    chord # NoChord =>
        /\ 0 <= chord.inversion
        /\ chord.inversion <= Len(chord.intervals)

\* C2: when the text after '/' is an integer n, from_regex returns a
\* chord with inversion n modulo (intervals.len() + 1), and "C/1" has the
\* notes [E4, G4, C5]
C2_IntegerInversion ==
    (ParsedChordText /\ HasSlash(call.text) /\ IsInteger(AfterSlash(call.text))) =>
        /\ err = "none"
        /\ chord.inversion =
              DecimalValue(AfterSlash(call.text)) % (Len(chord.intervals) + 1)
        /\ (call.text = <<"C", "/", "1">> /\ pc = "done") =>
              notesOut = << [pitch_class |-> 4, octave |-> 4],
                            [pitch_class |-> 7, octave |-> 4],
                            [pitch_class |-> 0, octave |-> 5] >>

\* C3: when the text after '/' is neither an integer nor a pitch class,
\* from_regex returns the inversion-format error and no chord
C3_InversionFormatError ==
    (/\ ParsedChordText
     /\ HasSlash(call.text)
     /\ ~IsInteger(AfterSlash(call.text))
     /\ ~PitchClass_from_regex(AfterSlash(call.text)).ok) =>
        /\ err = "InversionFormat"
        /\ chord = NoChord

\* C4: when the text after '/' is a pitch class b, from_regex returns Ok
\* and the chord's inversion is the index of the first note with pitch
\* class b in the root-position notes, 0 when no note has it
C4_BassNoteInversion ==
    (/\ ParsedChordText
     /\ HasSlash(call.text)
     /\ PitchClass_from_regex(AfterSlash(call.text)).ok) =>
        LET b == PitchClass_from_regex(AfterSlash(call.text)).pitch_class
            ns == RootPositionNotes(chord)
        IN  /\ err = "none"
            /\ chord # NoChord
            /\ \/ /\ \A i \in 1..Len(ns) : ns[i].pitch_class # b
                  /\ chord.inversion = 0
               \/ /\ chord.inversion + 1 \in 1..Len(ns)
                  /\ ns[chord.inversion + 1].pitch_class = b
                  /\ \A i \in 1..chord.inversion : ns[i].pitch_class # b

\* a bass note that is the seventh note of a thirteenth chord was resolved
C4_Witness ==
    /\ call.name = "from_regex"
    /\ HasSlash(call.text)
    /\ PitchClass_from_regex(AfterSlash(call.text)).ok
    /\ chord.number = "Thirteenth"
    /\ chord.inversion = 6

\* C5: in the notes of a chord built by with_inversion, a note whose
\* ordinal does not exceed its predecessor's is exactly one octave above
\* it, and a note whose ordinal exceeds it is not in a lower octave
C5_OctaveMonotonic ==
    (pc = "done" /\ call.name = "with_inversion") =>
        /\ err = "none"
        /\ \A i \in 2..Len(notesOut) :
            IF notesOut[i].pitch_class <= notesOut[i - 1].pitch_class
                THEN notesOut[i].octave = notesOut[i - 1].octave + 1
                ELSE notesOut[i].octave >= notesOut[i - 1].octave

\* an inverted chord whose notes repeat a pitch class one octave up
C5_Witness ==
    /\ pc = "done"
    /\ call.name = "with_inversion"
    /\ chord.inversion > 0
    /\ \E i \in 2..Len(notesOut) :
        /\ notesOut[i].pitch_class = notesOut[i - 1].pitch_class
        /\ notesOut[i].octave = notesOut[i - 1].octave + 1

\* C6 as stated: with_inversion(_, _, _, k + 1) has inversion 1
C6_WrapsToOne ==
    (call.name = "with_inversion" /\ call.inversion = Len(chord.intervals) + 1) =>
        chord.inversion = 1

\* C6 amended: with_inversion(_, _, _, k + 1) has inversion 0, and
\* with_inversion(_, _, _, k + 2) has inversion 1
C6_WrapsToZero ==
    /\ (call.name = "with_inversion" /\ call.inversion = Len(chord.intervals) + 1) =>
            chord.inversion = 0
    /\ (call.name = "with_inversion" /\ call.inversion = Len(chord.intervals) + 2) =>
            chord.inversion = 1

\* a thirteenth chord (k = 6) was built with inversion argument 7
C6_Witness ==
    /\ call.name = "with_inversion"
    /\ Len(chord.intervals) = 6
    /\ call.inversion = 7

Matches(regex, text) == RegexFind(regex, text) # NoMatch

\* C7: a text that matches a Harmonic-Minor (Melodic-Minor) alias and a
\* plain Minor alias is recognized as HarmonicMinor (MelodicMinor)
C7_MinorPrecedence ==
    (call.name = "mode_from_regex" /\ Matches(REGEX_MINOR, call.text)) =>
        /\ Matches(REGEX_HARMONIC_MINOR, call.text) =>
                (modeOut.ok /\ modeOut.mode = "HarmonicMinor")
        /\ Matches(REGEX_MELODIC_MINOR, call.text) =>
                (modeOut.ok /\ modeOut.mode = "MelodicMinor")

\* C8: every chord's intervals are chord_intervals(quality, number)
C8_IntervalsFromLookup ==
    chord # NoChord => chord.intervals = chord_intervals(chord.quality, chord.number)

\* C9: an alias listed for a mode is recognized as that mode
C9_AliasGivesItsMode ==
    call.name = "mode_from_regex" =>
        \A k \in 1..Len(ModeRegexes) :
            (\E j \in 1..Len(ModeRegexes[k].regex) : ModeRegexes[k].regex[j] = call.text) =>
                (modeOut.ok /\ modeOut.mode = ModeRegexes[k].mode)

\* C10: the notes of a chord built by with_inversion with inversion i are
\* intervals.len() + 1 notes, the first with the pitch class of the
\* root-position note at index i and the chord's octave, 4; the first
\* pass subtracts from no octave more than it holds
C10_BassAtRootOctave ==
    (pc = "done" /\ call.name = "with_inversion") =>
        LET ns == RootPositionNotes(chord)
            rotated == rotate_left(ns, chord.inversion)
        IN  /\ err = "none"
            /\ Len(notesOut) = Len(chord.intervals) + 1
            /\ notesOut[1].pitch_class = ns[chord.inversion + 1].pitch_class
            /\ notesOut[1].octave = chord.octave
            /\ chord.octave = 4
            /\ \A j \in 1..Len(rotated) :
                  rotated[j].octave >= rotated[1].octave - chord.octave

\* an inverted chord whose bass note was generated above octave 4
C10_Witness ==
    /\ pc = "done"
    /\ call.name = "with_inversion"
    /\ chord.inversion > 0
    /\ rotate_left(RootPositionNotes(chord), chord.inversion)[1].octave > chord.octave
    /\ notesOut[1].octave = 4

=============================================================================
